---- MODULE Spec2Model ----
(***************************************************************************)
(* A model of the task/user management API of salmo-fk/Task_management:    *)
(* the two in-memory stores of src/src/task_manager.py and                  *)
(* src/src/user_manager.py, their JSON files, and the Flask handlers of     *)
(* src/src/app.py that sit on top of them.                                  *)
(*                                                                          *)
(* A Python str is a sequence of one-character strings, a dict is a record, *)
(* a list is a sequence.  Every store function is an operator from the      *)
(* store (and its arguments) to an outcome record                           *)
(*     [tasks | users, exc, ret, save]                                      *)
(* holding the store after the call, the exception that left it ("none"     *)
(* when it returned), the returned records, and whether the call reached    *)
(* its _save_ call.  An action applies one operator to the state and keeps  *)
(* the call and its outcome in `last`.                                      *)
(***************************************************************************)
EXTENDS Integers, Sequences, FiniteSets, TLC

VARIABLES
    task_list,   \* task_manager.task_list: the in-memory list of task dicts
    tasks_file,  \* the content of tasks.json
    user_list,   \* user_manager.user_list: the in-memory list of user dicts
    users_file,  \* the content of users.json
    ever_ids,    \* history: the ids add_task has handed out so far (and the seed's)
    deleted_ids, \* history: the ids delete_task returned for since the last add_task
    last,        \* the last call: its name, its arguments, its outcome, and what
                 \* a write of the store's file did during it (io)
    threads      \* for each request thread, where it stands in the mutating call it
                 \* is running, and the record the call has built

vars ==
    <<task_list, tasks_file, user_list, users_file, ever_ids, deleted_ids, last,
      threads>>

----------------------------------------------------------------------------
(* Bounds of the model.                                                     *)

\* add_task is not taken once it would hand out an id above MaxId.
MaxId == 4

\* add_task is not taken on a store of MaxBulk tasks (the long-store specification).
MaxBulk == 22

----------------------------------------------------------------------------
(* Python values.                                                           *)

\* Optional[str]: None, or a str.
None == [some |-> FALSE, v |-> <<>>]
Some(s) == [some |-> TRUE, v |-> s]

Min(a, b) == IF a < b THEN a ELSE b

\* max(iterable, default=0) over a set of integers.
MaxOr0(S) == IF S = {} THEN 0 ELSE CHOOSE m \in S : \A x \in S : x <= m

\* The characters str.strip() removes.
Whitespace == {" ", "\t", "\n", "\r"}

RECURSIVE lstrip(_)
lstrip(s) == IF s # <<>> /\ Head(s) \in Whitespace THEN lstrip(Tail(s)) ELSE s

RECURSIVE rstrip(_)
rstrip(s) ==
    IF s # <<>> /\ s[Len(s)] \in Whitespace
    THEN rstrip(SubSeq(s, 1, Len(s) - 1))
    ELSE s

\* str.strip()
strip(s) == rstrip(lstrip(s))

UpperLetters ==
    <<"A","B","C","D","E","F","G","H","I","J","K","L","M",
      "N","O","P","Q","R","S","T","U","V","W","X","Y","Z">>

LowerLetters ==
    <<"a","b","c","d","e","f","g","h","i","j","k","l","m",
      "n","o","p","q","r","s","t","u","v","w","x","y","z">>

\* The lower-case letter of each upper-case letter.
LowerOf ==
    [c \in {UpperLetters[i] : i \in 1..Len(UpperLetters)} |->
        LowerLetters[CHOOSE i \in 1..Len(UpperLetters) : UpperLetters[i] = c]]

lower_char(c) == IF c \in DOMAIN LowerOf THEN LowerOf[c] ELSE c

\* str.lower()
lower(s) == [i \in 1..Len(s) |-> lower_char(s[i])]

\* list[start:end] of Python, start and end counted from 0, both >= 0.
Slice(seq, start, end) == SubSeq(seq, start + 1, Min(end, Len(seq)))

\* The list without its element at (1-based) position i: del list[i-1].
RemoveAt(seq, i) == SubSeq(seq, 1, i - 1) \o SubSeq(seq, i + 1, Len(seq))

\* The characters of the model in code point order.
CodePoints ==
    <<"\t", "\n", "\r", " ", "-", ".">>
        \o <<"0", "1", "2", "3", "4", "5", "6", "7", "8", "9", "@">>
        \o UpperLetters \o <<"_">> \o LowerLetters \o <<"â", "è">>

OrdOf ==
    [c \in {CodePoints[i] : i \in 1..Len(CodePoints)} |->
        CHOOSE i \in 1..Len(CodePoints) : CodePoints[i] = c]

ord(c) == OrdOf[c]

\* a < b of two str: the first position where they differ decides, a proper prefix
\* is smaller.
str_lt(a, b) ==
    \E k \in 1..(Min(Len(a), Len(b)) + 1) :
        /\ \A j \in 1..(k - 1) : a[j] = b[j]
        /\ \/ k > Len(a) /\ k <= Len(b)
           \/ k <= Len(a) /\ k <= Len(b) /\ ord(a[k]) < ord(b[k])

\* `needle in hay` of two str.
contains(hay, needle) ==
    \E i \in 0..(Len(hay) - Len(needle)) : SubSeq(hay, i + 1, i + Len(needle)) = needle

\* a < b of two sort keys: both str (is_str), or both int.
key_lt(a, b, is_str) == IF is_str THEN str_lt(a, b) ELSE a < b

\* sorted(seq, key=...) and list.sort(key=..., reverse=reverse): keys[i] is the key of
\* seq[i], computed once.  The sort is stable, under reverse too: elements with equal
\* keys keep their order.
StableSort(seq, keys, is_str, reverse) ==
    LET n == Len(seq)
        precedes(j, i) ==
            \/ IF reverse
               THEN key_lt(keys[i], keys[j], is_str)
               ELSE key_lt(keys[j], keys[i], is_str)
            \/ /\ ~key_lt(keys[i], keys[j], is_str)
               /\ ~key_lt(keys[j], keys[i], is_str)
               /\ j < i
        rank == [i \in 1..n |-> Cardinality({j \in 1..n : j # i /\ precedes(j, i)})]
    IN  [p \in 1..n |-> seq[CHOOSE i \in 1..n : rank[i] = p - 1]]

\* The pagination metadata of an answer that has none.
NoMeta == [total |-> 0, total_pages |-> 0, page |-> 0, page_size |-> 0]

\* An id argument (Union[int, str]): int(x) succeeds with n, or raises.
IntArg(n) == [parses |-> TRUE, n |-> n]
BadArg == [parses |-> FALSE, n |-> 0]

----------------------------------------------------------------------------
(* task_manager.py                                                          *)

MaxTitleLen == 100
MaxDescriptionLen == 500

VALID_STATUSES == {"TODO", "ONGOING", "DONE"}

\* The time DEFAULT_TASKS is built at (module import).
ImportTime == 0

DEFAULT_TASKS ==
    << [id |-> 1,
        title |-> <<"P","r","e","m","i","è","r","e"," ","t","â","c","h","e">>,
        description |-> <<"D","e","s","c","r","i","p","t","i","o","n"," ","d","e"," ",
                          "l","a"," ","p","r","e","m","i","è","r","e"," ",
                          "t","â","c","h","e">>,
        status |-> "TODO",
        created_at |-> ImportTime],
       [id |-> 2,
        title |-> <<"D","e","u","x","i","è","m","e"," ","t","â","c","h","e">>,
        description |-> <<"D","e","s","c","r","i","p","t","i","o","n"," ","d","e"," ",
                          "l","a"," ","d","e","u","x","i","è","m","e"," ",
                          "t","â","c","h","e">>,
        status |-> "DONE",
        created_at |-> ImportTime] >>

\* A file: readable JSON holding `records`, or content json.load cannot read.
FileOf(records) == [readable |-> TRUE, records |-> records]
CorruptFile == [readable |-> FALSE, records |-> <<>>]

\* What open(path, 'w') + json.dump leave in the file: "written" (no IOError),
\* "open_failed" (open raised: the file is as it was), "dump_failed" (the file was
\* truncated by open and the dump raised: what is left is not the JSON array).
SaveOutcomes == {"written", "open_failed", "dump_failed"}

_save(file, records, io) ==
    CASE io = "written" -> FileOf(records)
      [] io = "open_failed" -> file
      [] OTHER -> CorruptFile

\* The ids of a list of records.
Ids(records) == {records[i].id : i \in 1..Len(records)}

\* The position of the first record whose id is n, 0 when there is none
\* (the for loops of get_task_by_id, delete_task, get_user_by_id).
FirstIndex(records, n) ==
    IF n \in Ids(records)
    THEN CHOOSE i \in 1..Len(records) :
            /\ records[i].id = n
            /\ \A j \in 1..(i - 1) : records[j].id # n
    ELSE 0

\* Mutant of _validate_task_id: 0 is let through (id_int < 0).
_validate_task_id_allows_zero(task_id) ==
    IF task_id.parses /\ task_id.n >= 0
    THEN [ok |-> TRUE, n |-> task_id.n]
    ELSE [ok |-> FALSE, n |-> 0]

\* [ok, n]: the int the id converts to, or ValueError.
_validate_task_id(task_id) ==
    IF task_id.parses /\ task_id.n >= 1
    THEN [ok |-> TRUE, n |-> task_id.n]
    ELSE [ok |-> FALSE, n |-> 0]

\* Mutants of next_task_id: the "+ 1" forgotten; the length taken for the largest id.
next_task_id_no_incr(tasks) == MaxOr0(Ids(tasks))
next_task_id_len(tasks) == Len(tasks) + 1

\* new_id = max((t["id"] for t in task_list), default=0) + 1
next_task_id(tasks) == MaxOr0(Ids(tasks)) + 1

\* The description of add_task(title) called without one.
DefaultDescription == <<>>

\* Mutant of add_task: the title is validated trimmed and stored as given.
add_task_no_strip(tasks, title, description, now) ==
    LET t == strip(title)
        d == strip(description)
        new_task == [id |-> next_task_id(tasks), title |-> title, description |-> d,
                     status |-> "TODO", created_at |-> now]
    IN  IF t = <<>> \/ Len(t) > MaxTitleLen \/ Len(d) > MaxDescriptionLen
        THEN [tasks |-> tasks, exc |-> "ValueError", ret |-> <<>>, save |-> FALSE]
        ELSE [tasks |-> Append(tasks, new_task), exc |-> "none",
              ret |-> <<new_task>>, save |-> TRUE]

\* Mutant of add_task: the limits are compared with >= where the code has >.
add_task_ge(tasks, title, description, now) ==
    LET t == strip(title)
        d == strip(description)
        new_task == [id |-> next_task_id(tasks), title |-> t, description |-> d,
                     status |-> "TODO", created_at |-> now]
    IN  IF t = <<>> \/ Len(t) >= MaxTitleLen \/ Len(d) >= MaxDescriptionLen
        THEN [tasks |-> tasks, exc |-> "ValueError", ret |-> <<>>, save |-> FALSE]
        ELSE [tasks |-> Append(tasks, new_task), exc |-> "none",
              ret |-> <<new_task>>, save |-> TRUE]

add_task(tasks, title, description, now) ==
    LET t == strip(title)
        d == strip(description)
        new_task == [id |-> next_task_id(tasks), title |-> t, description |-> d,
                     status |-> "TODO", created_at |-> now]
    IN  IF t = <<>> \/ Len(t) > MaxTitleLen \/ Len(d) > MaxDescriptionLen
        THEN [tasks |-> tasks, exc |-> "ValueError", ret |-> <<>>, save |-> FALSE]
        ELSE [tasks |-> Append(tasks, new_task), exc |-> "none",
              ret |-> <<new_task>>, save |-> TRUE]

get_task_by_id(tasks, task_id) ==
    LET v == _validate_task_id(task_id)
        i == FirstIndex(tasks, v.n)
    IN  IF ~v.ok
        THEN [tasks |-> tasks, exc |-> "ValueError", ret |-> <<>>, save |-> FALSE]
        ELSE IF i = 0
        THEN [tasks |-> tasks, exc |-> "LookupError", ret |-> <<>>, save |-> FALSE]
        ELSE [tasks |-> tasks, exc |-> "none", ret |-> <<tasks[i]>>, save |-> FALSE]

\* Mutant of update_task: a description that is None is written as "".
update_task_clears(tasks, task_id, title, description) ==
    LET g == get_task_by_id(tasks, task_id)
        i == FirstIndex(tasks, _validate_task_id(task_id).n)
        t == strip(title.v)
        d == strip(description.v)
        title_bad == title.some /\ (t = <<>> \/ Len(t) > MaxTitleLen)
        with_title == IF title.some THEN [tasks EXCEPT ![i].title = t] ELSE tasks
        desc_bad == description.some /\ Len(d) > MaxDescriptionLen
        with_both == [with_title EXCEPT ![i].description = d]
    IN  IF g.exc # "none" THEN g
        ELSE IF title_bad
        THEN [tasks |-> tasks, exc |-> "ValueError", ret |-> <<>>, save |-> FALSE]
        ELSE IF desc_bad
        THEN [tasks |-> with_title, exc |-> "ValueError", ret |-> <<>>, save |-> FALSE]
        ELSE [tasks |-> with_both, exc |-> "none", ret |-> <<with_both[i]>>,
              save |-> TRUE]

\* title and description are Optional[str].  The title is assigned before the
\* description is validated.
update_task(tasks, task_id, title, description) ==
    LET g == get_task_by_id(tasks, task_id)
        i == FirstIndex(tasks, _validate_task_id(task_id).n)
        t == strip(title.v)
        d == strip(description.v)
        title_bad == title.some /\ (t = <<>> \/ Len(t) > MaxTitleLen)
        with_title == IF title.some THEN [tasks EXCEPT ![i].title = t] ELSE tasks
        desc_bad == description.some /\ Len(d) > MaxDescriptionLen
        with_both == IF description.some
                     THEN [with_title EXCEPT ![i].description = d]
                     ELSE with_title
    IN  IF g.exc # "none" THEN g
        ELSE IF title_bad
        THEN [tasks |-> tasks, exc |-> "ValueError", ret |-> <<>>, save |-> FALSE]
        ELSE IF desc_bad
        THEN [tasks |-> with_title, exc |-> "ValueError", ret |-> <<>>, save |-> FALSE]
        ELSE [tasks |-> with_both, exc |-> "none", ret |-> <<with_both[i]>>,
              save |-> TRUE]

\* Mutant of update_task_status: the status is assigned without the membership test.
update_task_status_unchecked(tasks, task_id, new_status) ==
    LET g == get_task_by_id(tasks, task_id)
        i == FirstIndex(tasks, _validate_task_id(task_id).n)
        updated == [tasks EXCEPT ![i].status = new_status]
    IN  IF g.exc # "none" THEN g
        ELSE [tasks |-> updated, exc |-> "none", ret |-> <<updated[i]>>, save |-> TRUE]

update_task_status(tasks, task_id, new_status) ==
    LET g == get_task_by_id(tasks, task_id)
        i == FirstIndex(tasks, _validate_task_id(task_id).n)
        updated == [tasks EXCEPT ![i].status = new_status]
    IN  IF g.exc # "none" THEN g
        ELSE IF new_status \notin VALID_STATUSES
        THEN [tasks |-> tasks, exc |-> "ValueError", ret |-> <<>>, save |-> FALSE]
        ELSE [tasks |-> updated, exc |-> "none", ret |-> <<updated[i]>>, save |-> TRUE]

\* Mutant of delete_task: the position counted from 1 where del counts from 0.
delete_task_off_by_one(tasks, task_id) ==
    LET v == _validate_task_id(task_id)
        i == FirstIndex(tasks, v.n)
    IN  IF ~v.ok
        THEN [tasks |-> tasks, exc |-> "ValueError", ret |-> <<>>, save |-> FALSE]
        ELSE IF i = 0
        THEN [tasks |-> tasks, exc |-> "LookupError", ret |-> <<>>, save |-> FALSE]
        ELSE [tasks |-> RemoveAt(tasks, i + 1), exc |-> "none", ret |-> <<>>,
              save |-> TRUE]

\* Mutant of delete_task: the task is removed and the file is not written.
delete_task_no_save(tasks, task_id) ==
    LET v == _validate_task_id(task_id)
        i == FirstIndex(tasks, v.n)
    IN  IF ~v.ok
        THEN [tasks |-> tasks, exc |-> "ValueError", ret |-> <<>>, save |-> FALSE]
        ELSE IF i = 0
        THEN [tasks |-> tasks, exc |-> "LookupError", ret |-> <<>>, save |-> FALSE]
        ELSE [tasks |-> RemoveAt(tasks, i), exc |-> "none", ret |-> <<>>, save |-> FALSE]

\* Mutant of delete_task: the list is cut at the task (del task_list[i:]).
delete_task_truncate(tasks, task_id) ==
    LET v == _validate_task_id(task_id)
        i == FirstIndex(tasks, v.n)
    IN  IF ~v.ok
        THEN [tasks |-> tasks, exc |-> "ValueError", ret |-> <<>>, save |-> FALSE]
        ELSE IF i = 0
        THEN [tasks |-> tasks, exc |-> "LookupError", ret |-> <<>>, save |-> FALSE]
        ELSE [tasks |-> SubSeq(tasks, 1, i - 1), exc |-> "none", ret |-> <<>>,
              save |-> TRUE]

delete_task(tasks, task_id) ==
    LET v == _validate_task_id(task_id)
        i == FirstIndex(tasks, v.n)
    IN  IF ~v.ok
        THEN [tasks |-> tasks, exc |-> "ValueError", ret |-> <<>>, save |-> FALSE]
        ELSE IF i = 0
        THEN [tasks |-> tasks, exc |-> "LookupError", ret |-> <<>>, save |-> FALSE]
        ELSE [tasks |-> RemoveAt(tasks, i), exc |-> "none", ret |-> <<>>, save |-> TRUE]

\* Mutant of get_tasks: the slice starts one page too far.
get_tasks_off_by_one(tasks, page, page_size) ==
    LET total_tasks == Len(tasks)
        total_pages == (total_tasks + page_size - 1) \div page_size
        start == page * page_size
        end == start + page_size
        paginated_tasks ==
            IF page > total_pages /\ total_tasks # 0
            THEN <<>>
            ELSE Slice(tasks, start, end)
    IN  IF page < 1 \/ page_size < 1
        THEN [exc |-> "ValueError", ret |-> <<>>, meta |-> NoMeta]
        ELSE [exc |-> "none", ret |-> paginated_tasks,
              meta |-> [total |-> total_tasks, total_pages |-> total_pages,
                        page |-> page, page_size |-> page_size]]

\* Mutant of get_tasks: a page past the last one is refused.
get_tasks_strict(tasks, page, page_size) ==
    LET total_tasks == Len(tasks)
        total_pages == (total_tasks + page_size - 1) \div page_size
        start == (page - 1) * page_size
        end == start + page_size
    IN  IF page < 1 \/ page_size < 1
        THEN [exc |-> "ValueError", ret |-> <<>>, meta |-> NoMeta]
        ELSE IF page > total_pages /\ total_tasks # 0
        THEN [exc |-> "ValueError", ret |-> <<>>, meta |-> NoMeta]
        ELSE [exc |-> "none", ret |-> Slice(tasks, start, end),
              meta |-> [total |-> total_tasks, total_pages |-> total_pages,
                        page |-> page, page_size |-> page_size]]

\* The paginated answers (get_tasks, list_users) carry no store: they change none.
get_tasks(tasks, page, page_size) ==
    LET total_tasks == Len(tasks)
        total_pages == (total_tasks + page_size - 1) \div page_size
        start == (page - 1) * page_size
        end == start + page_size
        paginated_tasks ==
            IF page > total_pages /\ total_tasks # 0
            THEN <<>>
            ELSE Slice(tasks, start, end)
    IN  IF page < 1 \/ page_size < 1
        THEN [exc |-> "ValueError", ret |-> <<>>, meta |-> NoMeta]
        ELSE [exc |-> "none", ret |-> paginated_tasks,
              meta |-> [total |-> total_tasks, total_pages |-> total_pages,
                        page |-> page, page_size |-> page_size]]

\* The default page_size of get_tasks.
DefaultPageSize == 20

search_match(t, keyword_lower) ==
    \/ contains(lower(t.title), keyword_lower)
    \/ contains(lower(t.description), keyword_lower)

\* Mutant of search_tasks: the keyword is compared as given, not lower-cased.
search_tasks_raw_keyword(tasks, keyword) ==
    SelectSeq(tasks, LAMBDA t : search_match(t, keyword))

search_tasks(tasks, keyword) ==
    LET keyword_lower == lower(keyword)
    IN  SelectSeq(tasks, LAMBDA t : search_match(t, keyword_lower))

----------------------------------------------------------------------------
(* user_manager.py                                                          *)

MaxNameLen == 50

Digits == {"0", "1", "2", "3", "4", "5", "6", "7", "8", "9"}

\* \w of a Python 3 str pattern, over the characters of the model.
WordChars ==
    {UpperLetters[i] : i \in 1..Len(UpperLetters)}
        \cup {LowerLetters[i] : i \in 1..Len(LowerLetters)}
        \cup Digits \cup {"_", "è", "â"}

\* [\w\.-]
WordDotDash == WordChars \cup {".", "-"}

\* ^[\w\.-]+@[\w\.-]+\.\w+ up to the end of s: the "@" at i, the last "." at j.
email_fullmatch(s) ==
    \E i \in 2..Len(s), j \in 4..(Len(s) - 1) :
        /\ s[i] = "@"
        /\ s[j] = "."
        /\ j >= i + 2
        /\ \A k \in 1..(i - 1) : s[k] \in WordDotDash
        /\ \A k \in (i + 1)..(j - 1) : s[k] \in WordDotDash
        /\ \A k \in (j + 1)..Len(s) : s[k] \in WordChars

\* re.match(VALID_EMAIL_REGEX, s): "$" matches at the end of s, and before a
\* newline that ends s.
email_match(s) ==
    \/ email_fullmatch(s)
    \/ /\ s # <<>>
       /\ s[Len(s)] = "\n"
       /\ email_fullmatch(SubSeq(s, 1, Len(s) - 1))

\* any(u["email"].lower() == email for u in user_list)
email_in_use(users, email) ==
    \E i \in 1..Len(users) : lower(users[i].email) = email

\* user_id = max((u["id"] for u in user_list), default=0) + 1
next_user_id(users) == MaxOr0(Ids(users)) + 1

\* Mutant of create_user: the email is trimmed and not lower-cased.
create_user_no_lower(users, name, email, now) ==
    LET n == strip(name)
        e == strip(email)
        new_user == [id |-> next_user_id(users), name |-> n, email |-> e,
                     created_at |-> now]
    IN  IF \/ n = <<>>
           \/ Len(n) > MaxNameLen
           \/ ~email_match(e)
           \/ email_in_use(users, e)
        THEN [users |-> users, exc |-> "ValueError", ret |-> <<>>, save |-> FALSE]
        ELSE [users |-> Append(users, new_user), exc |-> "none",
              ret |-> <<new_user>>, save |-> TRUE]

\* Mutant of create_user: the length of the name is not checked.
create_user_no_name_limit(users, name, email, now) ==
    LET n == strip(name)
        e == lower(strip(email))
        new_user == [id |-> next_user_id(users), name |-> n, email |-> e,
                     created_at |-> now]
    IN  IF \/ n = <<>>
           \/ ~email_match(e)
           \/ email_in_use(users, e)
        THEN [users |-> users, exc |-> "ValueError", ret |-> <<>>, save |-> FALSE]
        ELSE [users |-> Append(users, new_user), exc |-> "none",
              ret |-> <<new_user>>, save |-> TRUE]

\* Mutant of create_user: an email in use renames the user that has it.
create_user_upsert(users, name, email, now) ==
    LET n == strip(name)
        e == lower(strip(email))
        new_user == [id |-> next_user_id(users), name |-> n, email |-> e,
                     created_at |-> now]
        i == CHOOSE k \in 1..Len(users) : lower(users[k].email) = e
        renamed == [users EXCEPT ![i].name = n]
    IN  IF \/ n = <<>>
           \/ Len(n) > MaxNameLen
           \/ ~email_match(e)
        THEN [users |-> users, exc |-> "ValueError", ret |-> <<>>, save |-> FALSE]
        ELSE IF email_in_use(users, e)
        THEN [users |-> renamed, exc |-> "none", ret |-> <<renamed[i]>>, save |-> TRUE]
        ELSE [users |-> Append(users, new_user), exc |-> "none",
              ret |-> <<new_user>>, save |-> TRUE]

create_user(users, name, email, now) ==
    LET n == strip(name)
        e == lower(strip(email))
        new_user == [id |-> next_user_id(users), name |-> n, email |-> e,
                     created_at |-> now]
    IN  IF \/ n = <<>>
           \/ Len(n) > MaxNameLen
           \/ ~email_match(e)
           \/ email_in_use(users, e)
        THEN [users |-> users, exc |-> "ValueError", ret |-> <<>>, save |-> FALSE]
        ELSE [users |-> Append(users, new_user), exc |-> "none",
              ret |-> <<new_user>>, save |-> TRUE]

\* Mutant of list_users: the names are compared as they are, not lower-cased.
list_users_case_sensitive(users, page, page_size) ==
    LET sorted_users ==
            StableSort(users, [i \in 1..Len(users) |-> users[i].name], TRUE, FALSE)
        total_users == Len(sorted_users)
        total_pages == (total_users + page_size - 1) \div page_size
        start == (page - 1) * page_size
        end == start + page_size
        paginated_users ==
            IF page > total_pages /\ total_users # 0
            THEN <<>>
            ELSE Slice(sorted_users, start, end)
    IN  IF page < 1 \/ page_size < 1
        THEN [exc |-> "ValueError", ret |-> <<>>, meta |-> NoMeta]
        ELSE [exc |-> "none", ret |-> paginated_users,
              meta |-> [total |-> total_users, total_pages |-> total_pages,
                        page |-> page, page_size |-> page_size]]

list_users(users, page, page_size) ==
    LET sorted_users ==
            StableSort(users, [i \in 1..Len(users) |-> lower(users[i].name)], TRUE, FALSE)
        total_users == Len(sorted_users)
        total_pages == (total_users + page_size - 1) \div page_size
        start == (page - 1) * page_size
        end == start + page_size
        paginated_users ==
            IF page > total_pages /\ total_users # 0
            THEN <<>>
            ELSE Slice(sorted_users, start, end)
    IN  IF page < 1 \/ page_size < 1
        THEN [exc |-> "ValueError", ret |-> <<>>, meta |-> NoMeta]
        ELSE [exc |-> "none", ret |-> paginated_users,
              meta |-> [total |-> total_users, total_pages |-> total_pages,
                        page |-> page, page_size |-> page_size]]

get_user_by_id(users, user_id) ==
    LET i == FirstIndex(users, user_id.n)
    IN  IF ~user_id.parses \/ i = 0
        THEN [users |-> users, exc |-> "LookupError", ret |-> <<>>, save |-> FALSE]
        ELSE [users |-> users, exc |-> "none", ret |-> <<users[i]>>, save |-> FALSE]

----------------------------------------------------------------------------
(* The state after the two modules are imported with no file on disk (or an  *)
(* unreadable one): the seed is written and loaded.                          *)

_load_tasks == DEFAULT_TASKS

NoCall ==
    [op |-> "import", args |-> <<>>, exc |-> "none", http |-> 0, ret |-> <<>>,
     meta |-> NoMeta, io |-> "none"]

\* The threads that serve requests, and a thread that is running no call.
Threads == {1, 2}
IdleThread == [pc |-> "idle", op |-> "none", rec |-> <<>>]

Init ==
    /\ threads = [t \in Threads |-> IdleThread]
    /\ task_list = _load_tasks
    /\ tasks_file = FileOf(DEFAULT_TASKS)
    /\ user_list = <<>>
    /\ users_file = FileOf(<<>>)
    /\ ever_ids = Ids(_load_tasks)
    /\ deleted_ids = {}
    /\ last = NoCall

\* A direct call of a task_manager function: the store and, when the call reached
\* _save_tasks, the file.
TaskCall(op, args, r, io) ==
    /\ task_list' = r.tasks
    /\ tasks_file' = IF r.save THEN _save(tasks_file, r.tasks, io) ELSE tasks_file
    /\ ever_ids' = ever_ids \cup Ids(r.tasks)
    /\ deleted_ids' = CASE op = "add_task" /\ r.exc = "none" -> {}
                        [] op = "delete_task" /\ r.exc = "none" ->
                              deleted_ids \cup {args.task_id.n}
                        [] OTHER -> deleted_ids
    /\ last' = [op |-> op, args |-> args, exc |-> r.exc, http |-> 0, ret |-> r.ret,
                meta |-> NoMeta, io |-> io]
    /\ UNCHANGED <<user_list, users_file, threads>>

AddTask(title, description, now, io) ==
    TaskCall("add_task", [title |-> title, description |-> description],
             add_task(task_list, title, description, now), io)

GetTaskById(task_id) ==
    TaskCall("get_task_by_id", [task_id |-> task_id],
             get_task_by_id(task_list, task_id), "none")

UpdateTask(task_id, title, description, io) ==
    TaskCall("update_task",
             [task_id |-> task_id, title |-> title, description |-> description],
             update_task(task_list, task_id, title, description), io)

UpdateTaskStatus(task_id, new_status, io) ==
    TaskCall("update_task_status", [task_id |-> task_id, new_status |-> new_status],
             update_task_status(task_list, task_id, new_status), io)

DeleteTask(task_id, io) ==
    TaskCall("delete_task", [task_id |-> task_id],
             delete_task(task_list, task_id), io)

\* A direct call of a user_manager function.
UserCall(op, args, r, io) ==
    /\ user_list' = r.users
    /\ users_file' = IF r.save THEN _save(users_file, r.users, io) ELSE users_file
    /\ last' = [op |-> op, args |-> args, exc |-> r.exc, http |-> 0, ret |-> r.ret,
                meta |-> NoMeta, io |-> io]
    /\ UNCHANGED <<task_list, tasks_file, ever_ids, deleted_ids, threads>>

CreateUser(name, email, now, io) ==
    UserCall("create_user", [name |-> name, email |-> email],
             create_user(user_list, name, email, now), io)

GetUserById(user_id) ==
    UserCall("get_user_by_id", [user_id |-> user_id],
             get_user_by_id(user_list, user_id), "none")

----------------------------------------------------------------------------
(* add_task and create_user run by a thread, statement by statement: neither *)
(* module takes a lock, and the interpreter may switch threads between any    *)
(* two statements.                                                            *)

\* add_task up to the dict it builds: strip, the three checks, new_id from the ids
\* of task_list as it is now, new_task.  A check that fails raises at once.
AddTaskStart(t, title, description, now) ==
    LET r == add_task(task_list, title, description, now)
    IN  /\ threads[t].pc = "idle"
        /\ IF r.exc = "none"
           THEN /\ threads' = [threads EXCEPT
                                 ![t] = [pc |-> "append", op |-> "add_task",
                                         rec |-> r.ret[1]]]
                /\ UNCHANGED last
           ELSE /\ last' = [op |-> "add_task",
                            args |-> [title |-> title, description |-> description],
                            exc |-> r.exc, http |-> 0, ret |-> <<>>, meta |-> NoMeta,
                            io |-> "none"]
                /\ UNCHANGED threads
        /\ UNCHANGED <<task_list, tasks_file, user_list, users_file, ever_ids,
                       deleted_ids>>

\* task_list.append(new_task)
AddTaskAppend(t) ==
    /\ threads[t].pc = "append"
    /\ threads[t].op = "add_task"
    /\ task_list' = Append(task_list, threads[t].rec)
    /\ ever_ids' = ever_ids \cup {threads[t].rec.id}
    /\ threads' = [threads EXCEPT ![t].pc = "save"]
    /\ UNCHANGED <<tasks_file, user_list, users_file, deleted_ids, last>>

\* _save_tasks(task_list); return new_task
AddTaskSave(t, io) ==
    /\ threads[t].pc = "save"
    /\ threads[t].op = "add_task"
    /\ tasks_file' = _save(tasks_file, task_list, io)
    /\ last' = [op |-> "add_task",
                args |-> [title |-> threads[t].rec.title,
                          description |-> threads[t].rec.description],
                exc |-> "none", http |-> 0, ret |-> <<threads[t].rec>>,
                meta |-> NoMeta, io |-> io]
    /\ threads' = [threads EXCEPT ![t] = IdleThread]
    /\ UNCHANGED <<task_list, user_list, users_file, ever_ids, deleted_ids>>

\* create_user up to the dict it builds: strip and lower, the four checks (the email
\* looked for in user_list as it is now), user_id, new_user.
CreateUserStart(t, name, email, now) ==
    LET r == create_user(user_list, name, email, now)
    IN  /\ threads[t].pc = "idle"
        /\ IF r.exc = "none"
           THEN /\ threads' = [threads EXCEPT
                                 ![t] = [pc |-> "append", op |-> "create_user",
                                         rec |-> r.ret[1]]]
                /\ UNCHANGED last
           ELSE /\ last' = [op |-> "create_user",
                            args |-> [name |-> name, email |-> email],
                            exc |-> r.exc, http |-> 0, ret |-> <<>>, meta |-> NoMeta,
                            io |-> "none"]
                /\ UNCHANGED threads
        /\ UNCHANGED <<task_list, tasks_file, user_list, users_file, ever_ids,
                       deleted_ids>>

\* user_list.append(new_user)
CreateUserAppend(t) ==
    /\ threads[t].pc = "append"
    /\ threads[t].op = "create_user"
    /\ user_list' = Append(user_list, threads[t].rec)
    /\ threads' = [threads EXCEPT ![t].pc = "save"]
    /\ UNCHANGED <<task_list, tasks_file, users_file, ever_ids, deleted_ids, last>>

\* _save_users(user_list); return new_user
CreateUserSave(t, io) ==
    /\ threads[t].pc = "save"
    /\ threads[t].op = "create_user"
    /\ users_file' = _save(users_file, user_list, io)
    /\ last' = [op |-> "create_user",
                args |-> [name |-> threads[t].rec.name, email |-> threads[t].rec.email],
                exc |-> "none", http |-> 0, ret |-> <<threads[t].rec>>,
                meta |-> NoMeta, io |-> io]
    /\ threads' = [threads EXCEPT ![t] = IdleThread]
    /\ UNCHANGED <<task_list, tasks_file, user_list, ever_ids, deleted_ids>>

----------------------------------------------------------------------------
(* app.py                                                                   *)

\* The "user_id" of the JSON body of PATCH /tasks/<id>/assign: no body or no such
\* key, null, or an integer.
NoUserId == [given |-> FALSE, null |-> FALSE, n |-> 0]
NullUserId == [given |-> TRUE, null |-> TRUE, n |-> 0]
UserId(n) == [given |-> TRUE, null |-> FALSE, n |-> n]

\* task_manager.assign_task: the module defines no such function, so the attribute
\* lookup of the handler raises AttributeError before anything is called.
task_manager_assign_task(tasks, task_id, user_id) ==
    [tasks |-> tasks, exc |-> "AttributeError", ret |-> <<>>, save |-> FALSE]

\* The handler of PATCH /tasks/<int:task_id>/assign: task_id is the int the router
\* parsed (>= 0).
assign_task(tasks, task_id, body) ==
    LET r == task_manager_assign_task(tasks, task_id, body)
    IN  IF ~body.given
        THEN [tasks |-> tasks, exc |-> "none", http |-> 400, ret |-> <<>>]
        ELSE IF r.exc = "none"
        THEN [tasks |-> r.tasks, exc |-> "none", http |-> 200, ret |-> r.ret]
        ELSE IF r.exc = "LookupError"
        THEN [tasks |-> r.tasks, exc |-> "none", http |-> 404, ret |-> <<>>]
        ELSE [tasks |-> r.tasks, exc |-> "none", http |-> 400, ret |-> <<>>]

\* What a handler makes of the outcome r of the store function it called: the
\* exceptions in `caught` are answered (LookupError 404, ValueError 400), any other
\* leaves the handler and Flask answers 500; `ok` is the status of a success.
answer(r, caught, ok) ==
    IF r.exc = "none"
    THEN [tasks |-> r.tasks, exc |-> "none", http |-> ok, ret |-> r.ret,
          save |-> r.save]
    ELSE IF r.exc \in caught
    THEN [tasks |-> r.tasks, exc |-> "none",
          http |-> IF r.exc = "LookupError" THEN 404 ELSE 400,
          ret |-> <<>>, save |-> r.save]
    ELSE [tasks |-> r.tasks, exc |-> r.exc, http |-> 500, ret |-> <<>>,
          save |-> r.save]

\* The handler of GET /tasks/<int:task_id>: task_id is the int the router parsed
\* (>= 0); it catches LookupError only.
get_task(tasks, task_id) ==
    answer(get_task_by_id(tasks, IntArg(task_id)), {"LookupError"}, 200)

\* The JSON body of PUT /tasks/<id>: none (or an empty one), or an object whose
\* "title" and "description" are read with data.get (None when absent).
NoBody == [given |-> FALSE, title |-> None, description |-> None]
Body(title, description) == [given |-> TRUE, title |-> title, description |-> description]

\* The handler of PUT /tasks/<int:task_id>.
app_update_task(tasks, task_id, data) ==
    IF ~data.given
    THEN [tasks |-> tasks, exc |-> "none", http |-> 400, ret |-> <<>>, save |-> FALSE]
    ELSE answer(update_task(tasks, IntArg(task_id), data.title, data.description),
                {"LookupError", "ValueError"}, 200)

\* The JSON body of PATCH /tasks/<id>/status: no "status" key, or its value.
NoStatus == [given |-> FALSE, status |-> ""]
StatusBody(status) == [given |-> TRUE, status |-> status]

\* The handler of PATCH /tasks/<int:task_id>/status.
change_task_status(tasks, task_id, data) ==
    IF ~data.given
    THEN [tasks |-> tasks, exc |-> "none", http |-> 400, ret |-> <<>>, save |-> FALSE]
    ELSE answer(update_task_status(tasks, IntArg(task_id), data.status),
                {"LookupError", "ValueError"}, 200)

\* The handler of DELETE /tasks/<int:task_id>: it catches LookupError only.
app_delete_task(tasks, task_id) ==
    answer(delete_task(tasks, IntArg(task_id)), {"LookupError"}, 204)

\* A query parameter read with int(request.args.get(name, default)): absent, an
\* integer, or text int() rejects.
QAbsent == [given |-> FALSE, parses |-> TRUE, n |-> 0]
QInt(n) == [given |-> TRUE, parses |-> TRUE, n |-> n]
QBad == [given |-> TRUE, parses |-> FALSE, n |-> 0]

\* A query parameter read as text (sort_by, filter_status): absent, or the text.
NoParam == [some |-> FALSE, v |-> ""]
Param(v) == [some |-> TRUE, v |-> v]

\* The default page_size of parse_pagination_args.
DefaultQueryPageSize == 20

parse_pagination_args(page_q, page_size_q) ==
    LET page == IF page_q.given THEN page_q.n ELSE 1
        page_size == IF page_size_q.given THEN page_size_q.n ELSE DefaultQueryPageSize
    IN  IF \/ page_q.given /\ ~page_q.parses
           \/ page_size_q.given /\ ~page_size_q.parses
           \/ page < 1
           \/ page_size < 1
        THEN [ok |-> FALSE, page |-> 0, page_size |-> 0]
        ELSE [ok |-> TRUE, page |-> page, page_size |-> page_size]

BadRequest == [exc |-> "none", http |-> 400, ret |-> <<>>, meta |-> NoMeta]

\* Mutant of status_order: the statuses in the order of their names.
status_order_by_name(status) ==
    CASE status = "DONE" -> 0
      [] status = "ONGOING" -> 1
      [] status = "TODO" -> 2
      [] OTHER -> 99

\* status_order.get(status, 99)
status_order(status) ==
    CASE status = "TODO" -> 0
      [] status = "ONGOING" -> 1
      [] status = "DONE" -> 2
      [] OTHER -> 99

\* The key function list_tasks sorts by.
sort_key(sort_by, t) ==
    CASE sort_by = "status" -> status_order(t.status)
      [] sort_by = "title" -> t.title
      [] OTHER -> t.created_at

\* The tasks list_tasks paginates: those of get_tasks() (its defaults: page 1,
\* page_size 20), filtered, then sorted with reverse = not ascending.
list_tasks_source(tasks, filter_status, sort_by, ascending) ==
    LET all == get_tasks(tasks, 1, DefaultPageSize).ret
        filtered ==
            IF filter_status.some /\ filter_status.v # ""
            THEN SelectSeq(all, LAMBDA t : t.status = filter_status.v)
            ELSE all
    IN  StableSort(filtered,
                   [i \in 1..Len(filtered) |-> sort_key(sort_by, filtered[i])],
                   sort_by = "title",
                   ~ascending)

Q_false == <<"f", "a", "l", "s", "e">>
Q_true == <<"t", "r", "u", "e">>

\* Mutant of list_tasks_store: with no filter the handler sorts the store's own list
\* (get_tasks handing out task_list itself and not a slice of it).
list_tasks_store_aliased(tasks, filter_status, sort_by_q, ascending_q) ==
    LET sort_by == IF sort_by_q.some THEN sort_by_q.v ELSE "created_at"
        ascending == lower(IF ascending_q.some THEN ascending_q.v ELSE Q_false) = Q_true
    IN  IF filter_status.some \/ sort_by \notin {"created_at", "title", "status"}
        THEN tasks
        ELSE list_tasks_source(tasks, filter_status, sort_by, ascending)
                \o SubSeq(tasks, DefaultPageSize + 1, Len(tasks))

\* task_list after the handler of GET /tasks: the list the handler filters and sorts
\* in place is the slice get_tasks() built (task_list[start:end], or []), a list of
\* its own, so task_list keeps its order.
list_tasks_store(tasks, filter_status, sort_by_q, ascending_q) == tasks

\* The handler of GET /tasks.  ascending_q is an Optional[str].
list_tasks(tasks, filter_status, sort_by_q, ascending_q, page_q, page_size_q) ==
    LET sort_by == IF sort_by_q.some THEN sort_by_q.v ELSE "created_at"
        ascending == lower(IF ascending_q.some THEN ascending_q.v ELSE Q_false) = Q_true
        pg == parse_pagination_args(page_q, page_size_q)
        sorted == list_tasks_source(tasks, filter_status, sort_by, ascending)
        total_tasks == Len(sorted)
        total_pages == (total_tasks + pg.page_size - 1) \div pg.page_size
        start == (pg.page - 1) * pg.page_size
        end == start + pg.page_size
        tasks_page ==
            IF pg.page > total_pages /\ total_pages # 0
            THEN <<>>
            ELSE Slice(sorted, start, end)
    IN  IF filter_status.some /\ filter_status.v \notin {"TODO", "ONGOING", "DONE"}
        THEN BadRequest
        ELSE IF sort_by \notin {"created_at", "title", "status"}
        THEN BadRequest
        ELSE IF ~pg.ok
        THEN BadRequest
        ELSE [exc |-> "none", http |-> 200, ret |-> tasks_page,
              meta |-> [total |-> total_tasks, total_pages |-> total_pages,
                        page |-> pg.page, page_size |-> pg.page_size]]

\* The handler of GET /tasks/search.  keyword_q is an Optional[str].
search(tasks, keyword_q, page_q, page_size_q) ==
    LET keyword == IF keyword_q.some THEN keyword_q.v ELSE <<>>
        pg == parse_pagination_args(page_q, page_size_q)
        found == search_tasks(tasks, keyword)
        total_tasks == Len(found)
        total_pages == (total_tasks + pg.page_size - 1) \div pg.page_size
        start == (pg.page - 1) * pg.page_size
        end == start + pg.page_size
        tasks_page ==
            IF pg.page > total_pages /\ total_pages # 0
            THEN <<>>
            ELSE Slice(found, start, end)
    IN  IF ~pg.ok
        THEN BadRequest
        ELSE [exc |-> "none", http |-> 200, ret |-> tasks_page,
              meta |-> [total |-> total_tasks, total_pages |-> total_pages,
                        page |-> pg.page, page_size |-> pg.page_size]]

\* The handler of GET /users.
app_list_users(users, page_q, page_size_q) ==
    LET pg == parse_pagination_args(page_q, page_size_q)
        result == list_users(users, pg.page, pg.page_size)
    IN  IF ~pg.ok
        THEN BadRequest
        ELSE IF result.exc = "ValueError"
        THEN BadRequest
        ELSE [exc |-> "none", http |-> 200, ret |-> result.ret, meta |-> result.meta]

\* A call that reads: no store and no file changes.
ReadCall(op, args, r, http) ==
    /\ last' = [op |-> op, args |-> args, exc |-> r.exc, http |-> http, ret |-> r.ret,
                meta |-> r.meta, io |-> "none"]
    /\ UNCHANGED <<task_list, tasks_file, user_list, users_file, ever_ids, deleted_ids,
                   threads>>

GetTasks(page, page_size) ==
    ReadCall("get_tasks", [page |-> page, page_size |-> page_size],
             get_tasks(task_list, page, page_size), 0)

SearchTasks(keyword) ==
    ReadCall("search_tasks", [keyword |-> keyword],
             [exc |-> "none", ret |-> search_tasks(task_list, keyword), meta |-> NoMeta],
             0)

ListUsers(page, page_size) ==
    ReadCall("list_users", [page |-> page, page_size |-> page_size],
             list_users(user_list, page, page_size), 0)

ListTasks(filter_status, sort_by_q, ascending_q, page_q, page_size_q) ==
    LET r == list_tasks(task_list, filter_status, sort_by_q, ascending_q,
                        page_q, page_size_q)
    IN  /\ task_list' = list_tasks_store(task_list, filter_status, sort_by_q, ascending_q)
        /\ last' = [op |-> "GET /tasks",
                    args |-> [filter_status |-> filter_status, sort_by |-> sort_by_q,
                              ascending |-> ascending_q, page |-> page_q,
                              page_size |-> page_size_q],
                    exc |-> r.exc, http |-> r.http, ret |-> r.ret, meta |-> r.meta,
                    io |-> "none"]
        /\ UNCHANGED <<tasks_file, user_list, users_file, ever_ids, deleted_ids,
                       threads>>

Search(keyword_q, page_q, page_size_q) ==
    LET r == search(task_list, keyword_q, page_q, page_size_q)
    IN  ReadCall("GET /tasks/search",
                 [keyword |-> keyword_q, page |-> page_q, page_size |-> page_size_q],
                 r, r.http)

AppListUsers(page_q, page_size_q) ==
    LET r == app_list_users(user_list, page_q, page_size_q)
    IN  ReadCall("GET /users", [page |-> page_q, page_size |-> page_size_q], r, r.http)

\* A request to a task endpoint with a path id: the store and, when the store
\* function reached _save_tasks, the file.
TaskRequest(op, args, r, io) ==
    /\ task_list' = r.tasks
    /\ tasks_file' = IF r.save THEN _save(tasks_file, r.tasks, io) ELSE tasks_file
    /\ ever_ids' = ever_ids \cup Ids(r.tasks)
    /\ deleted_ids' = IF op = "DELETE /tasks/id" /\ r.http = 204
                       THEN deleted_ids \cup {args.task_id}
                       ELSE deleted_ids
    /\ last' = [op |-> op, args |-> args, exc |-> r.exc, http |-> r.http,
                ret |-> r.ret, meta |-> NoMeta, io |-> io]
    /\ UNCHANGED <<user_list, users_file, threads>>

GetTask(task_id) ==
    TaskRequest("GET /tasks/id", [task_id |-> task_id], get_task(task_list, task_id),
                "none")

PutTask(task_id, data, io) ==
    TaskRequest("PUT /tasks/id", [task_id |-> task_id, data |-> data],
                app_update_task(task_list, task_id, data), io)

PatchTaskStatus(task_id, data, io) ==
    TaskRequest("PATCH /tasks/id/status", [task_id |-> task_id, data |-> data],
                change_task_status(task_list, task_id, data), io)

DeleteTaskRequest(task_id, io) ==
    TaskRequest("DELETE /tasks/id", [task_id |-> task_id],
                app_delete_task(task_list, task_id), io)

\* A request: exc is the exception that left the handler ("none" when it answered),
\* http the status of the answer.
AssignTask(task_id, body) ==
    LET r == assign_task(task_list, task_id, body)
    IN  /\ task_list' = r.tasks
        /\ last' = [op |-> "PATCH /tasks/id/assign",
                    args |-> [task_id |-> task_id, body |-> body],
                    exc |-> r.exc, http |-> r.http, ret |-> r.ret, meta |-> NoMeta,
                    io |-> "none"]
        /\ UNCHANGED <<tasks_file, user_list, users_file, ever_ids, deleted_ids,
                       threads>>

----------------------------------------------------------------------------
(* The inputs the specifications draw from.                                 *)

T_Hi == <<" ", " ", "H", "i", " ", " ">>
T_Blank == <<" ", " ", " ">>

TaskIdArgs == {IntArg(n) : n \in 0..MaxId}

Next ==
    \/ \E title \in {T_Hi, T_Blank} :
          /\ next_task_id(task_list) <= MaxId
          /\ AddTask(title, <<>>, 1, "written")
    \/ \E id \in TaskIdArgs : GetTaskById(id)
    \/ \E id \in TaskIdArgs, title \in {None, Some(T_Hi)} :
          UpdateTask(id, title, None, "written")
    \/ \E id \in TaskIdArgs, s \in {"DONE", "INVALID"} :
          UpdateTaskStatus(id, s, "written")
    \/ \E id \in TaskIdArgs : DeleteTask(id, "written")

Spec == Init /\ [][Next]_vars

\* Names and emails of users.
N_Alice == <<"A", "l", "i", "c", "e">>
N_Bob == <<" ", "B", "o", "b">>
E_alice == <<"a", "@", "x", ".", "i", "o">>
E_ALICE == <<" ", "A", "@", "X", ".", "i", "o", " ">>
E_bob == <<"b", "o", "b", "@", "x", ".", "i", "o">>
E_bad == <<"b", "o", "b", "-", "a", "t", "-", "x">>

NextUsers ==
    \/ /\ next_task_id(task_list) <= MaxId
       /\ AddTask(T_Hi, <<>>, 1, "written")
    \/ \E id \in TaskIdArgs : DeleteTask(id, "written")
    \/ \E email \in {E_alice, E_ALICE, E_bob, E_bad} :
          CreateUser(N_Alice, email, 1, "written")
    \/ \E n \in 0..2 : GetUserById(IntArg(n))
    \/ \E n \in {1, MaxId}, body \in {NoUserId, NullUserId, UserId(1)} :
          AssignTask(n, body)

SpecUsers == Init /\ [][NextUsers]_vars

\* The users of tests/test_user_manager.py (test_list_users_sorting_by_name).
N_Charlie == <<"C", "h", "a", "r", "l", "i", "e">>
N_alice == <<"a", "l", "i", "c", "e">>
E_c == <<"c", "@", "x", ".", "i", "o">>

QueryUsers == {<<N_Charlie, E_c>>, <<N_alice, E_alice>>, <<N_Bob, E_bob>>}

\* page and page_size, valid and not, as integers and as query parameters.
Pages == 0..3
PageSizes == 0..2
QueryPages ==
    {<<QInt(p), QInt(ps)>> : p \in 1..3, ps \in 1..2}
        \cup {<<QInt(0), QInt(1)>>, <<QInt(1), QInt(0)>>, <<QAbsent, QAbsent>>,
              <<QBad, QInt(1)>>}

K_hi == <<"h", "I">>
K_la == <<"L", "A", " ">>

NextQuery ==
    \/ /\ next_task_id(task_list) <= MaxId
       /\ AddTask(T_Hi, <<>>, 1, "written")
    \/ \E u \in QueryUsers : CreateUser(u[1], u[2], 1, "written")
    \/ \E p \in Pages, ps \in PageSizes : GetTasks(p, ps)
    \/ \E p \in Pages, ps \in PageSizes : ListUsers(p, ps)
    \/ \E fs \in {<<NoParam, NoParam>>, <<Param("TODO"), Param("status")>>},
          q \in QueryPages :
          ListTasks(fs[1], fs[2], None, q[1], q[2])
    \/ \E k \in {None, Some(K_hi)}, q \in QueryPages : Search(k, q[1], q[2])
    \/ \E k \in {<<>>, K_hi, K_la} : SearchTasks(k)
    \/ \E q \in QueryPages : AppListUsers(q[1], q[2])

SpecQuery == Init /\ [][NextQuery]_vars

\* Page sizes around the default page size of get_tasks.
BulkPages ==
    {<<QAbsent, QAbsent>>, <<QInt(1), QInt(7)>>, <<QInt(2), QInt(20)>>,
     <<QInt(1), QInt(25)>>}

NextBulk ==
    \/ /\ Len(task_list) < MaxBulk
       /\ AddTask(T_Hi, <<>>, 1, "written")
    \/ \E f \in {NoParam, Param("TODO")}, q \in BulkPages :
          ListTasks(f, NoParam, None, q[1], q[2])

SpecBulk == Init /\ [][NextBulk]_vars

\* Titles and descriptions at and past the limits of add_task and update_task, with
\* whitespace around them.
Repeat(c, n) == [i \in 1..n |-> c]
T_Max == <<" ">> \o Repeat("a", MaxTitleLen) \o <<" ">>
T_Long == <<" ">> \o Repeat("a", MaxTitleLen + 1)
D_Note == <<"\t", "n", "o", " ", "T", "e", "\n">>
D_Max == <<" ">> \o Repeat("d", MaxDescriptionLen) \o <<" ">>
D_Long == Repeat("d", MaxDescriptionLen + 1) \o <<" ">>

AddInputs ==
    {<<T_Hi, DefaultDescription>>, <<T_Hi, D_Note>>, <<T_Blank, D_Note>>,
     <<T_Max, D_Max>>, <<T_Long, DefaultDescription>>, <<T_Hi, D_Long>>}

UpdateInputs ==
    {<<None, None>>, <<Some(T_Hi), None>>, <<None, Some(D_Note)>>,
     <<Some(T_Max), Some(D_Max)>>, <<Some(T_Blank), None>>, <<Some(T_Long), None>>,
     <<Some(T_Hi), Some(D_Long)>>}

NextEdit ==
    \/ \E a \in AddInputs :
          /\ next_task_id(task_list) <= MaxId
          /\ AddTask(a[1], a[2], 1, "written")
    \/ \E n \in {1, 3}, u \in UpdateInputs :
          UpdateTask(IntArg(n), u[1], u[2], "written")
    \/ UpdateTaskStatus(IntArg(1), "ONGOING", "written")

SpecEdit == Init /\ [][NextEdit]_vars

\* Names at and past the limit of create_user, and every operation beside them.
N_Blank == <<" ", "\t">>
N_Max == <<" ">> \o Repeat("n", MaxNameLen) \o <<" ">>
N_Long == <<"\t">> \o Repeat("n", MaxNameLen + 1)

NextAccounts ==
    \/ \E name \in {N_Bob, N_Blank, N_Max, N_Long},
          email \in {E_alice, E_ALICE, E_bob, E_bad} :
          CreateUser(name, email, 1, "written")
    \/ \E n \in 0..2 : GetUserById(IntArg(n))
    \/ ListUsers(1, 1)
    \/ AppListUsers(QAbsent, QAbsent)
    \/ /\ next_task_id(task_list) <= MaxId
       /\ AddTask(T_Hi, DefaultDescription, 1, "written")
    \/ GetTaskById(IntArg(1))
    \/ UpdateTask(IntArg(1), Some(T_Hi), None, "written")
    \/ UpdateTaskStatus(IntArg(1), "ONGOING", "written")
    \/ DeleteTask(IntArg(1), "written")
    \/ GetTasks(1, 1)
    \/ SearchTasks(K_hi)
    \/ ListTasks(NoParam, Param("title"), None, QAbsent, QAbsent)
    \/ Search(Some(K_hi), QAbsent, QAbsent)
    \/ AssignTask(2, UserId(1))

SpecAccounts == Init /\ [][NextAccounts]_vars

\* Ids of every kind: text int() rejects, negative, zero, of a record, of none.
LookupIds == {BadArg} \cup {IntArg(n) : n \in -1..MaxId}

NextLookup ==
    \/ /\ next_task_id(task_list) <= MaxId
       /\ AddTask(T_Hi, DefaultDescription, 1, "written")
    \/ \E n \in {1, 3} : DeleteTask(IntArg(n), "written")
    \/ \E u \in QueryUsers : CreateUser(u[1], u[2], 1, "written")
    \/ \E id \in LookupIds : GetTaskById(id)
    \/ \E id \in LookupIds : GetUserById(id)

SpecLookup == Init /\ [][NextLookup]_vars

\* The endpoints with a path id, for every id the router accepts up to MaxId.
RouteBodies == {NoBody, Body(Some(T_Hi), None), Body(Some(T_Blank), None)}

NextRoutes ==
    \/ /\ next_task_id(task_list) <= MaxId
       /\ AddTask(T_Hi, DefaultDescription, 1, "written")
    \/ \E n \in 0..MaxId : GetTask(n)
    \/ \E n \in {0, 1, MaxId}, data \in RouteBodies : PutTask(n, data, "written")
    \/ \E n \in {0, 2, MaxId},
          data \in {NoStatus, StatusBody("DONE"), StatusBody("done")} :
          PatchTaskStatus(n, data, "written")
    \/ \E n \in 0..MaxId : DeleteTaskRequest(n, "written")

SpecRoutes == Init /\ [][NextRoutes]_vars

\* The mutating operations of both stores with every outcome of the file write.
NextPersist ==
    \/ \E io \in SaveOutcomes :
          /\ next_task_id(task_list) <= MaxId
          /\ AddTask(T_Hi, DefaultDescription, 1, io)
    \/ \E title \in {Some(T_Hi), Some(T_Blank)}, io \in SaveOutcomes :
          UpdateTask(IntArg(1), title, None, io)
    \/ \E st \in {"ONGOING", "done"}, io \in SaveOutcomes :
          UpdateTaskStatus(IntArg(1), st, io)
    \/ \E io \in SaveOutcomes : DeleteTask(IntArg(1), io)
    \/ \E email \in {E_alice, E_bad}, io \in SaveOutcomes :
          CreateUser(N_Bob, email, 1, io)

SpecPersist == Init /\ [][NextPersist]_vars

\* Two threads adding tasks and creating users with emails equal up to case.
NextThreads ==
    \E t \in Threads :
        \/ /\ next_task_id(task_list) <= MaxId
           /\ AddTaskStart(t, T_Hi, DefaultDescription, 1)
        \/ AddTaskStart(t, T_Blank, DefaultDescription, 1)
        \/ AddTaskAppend(t)
        \/ AddTaskSave(t, "written")
        \/ \E email \in {E_alice, E_ALICE, E_bob} : CreateUserStart(t, N_Bob, email, 1)
        \/ CreateUserAppend(t)
        \/ CreateUserSave(t, "written")

SpecThreads == Init /\ [][NextThreads]_vars

\* Statuses, valid and not, and the listing by status in both directions.
StatusArgs == {"TODO", "ONGOING", "DONE", "done"}

StatusPages == {<<QAbsent, QAbsent>>, <<QInt(1), QInt(2)>>, <<QInt(2), QInt(2)>>}

NextStatus ==
    \/ /\ next_task_id(task_list) <= MaxId
       /\ AddTask(T_Hi, DefaultDescription, 1, "written")
    \/ \E id \in TaskIdArgs, st \in StatusArgs : UpdateTaskStatus(id, st, "written")
    \/ \E asc \in {None, Some(Q_true), Some(Q_false)}, q \in StatusPages :
          ListTasks(NoParam, Param("status"), asc, q[1], q[2])

SpecStatus == Init /\ [][NextStatus]_vars

----------------------------------------------------------------------------
(* The claims.                                                              *)

\* The largest id of a non-empty list of records.
LargestId(records) ==
    CHOOSE m \in Ids(records) : \A i \in 1..Len(records) : records[i].id <= m

\* C1: the id add_task gives a new task is the id of no task created earlier,
\* deleted ones included (an id is never used again).
C1_IdNeverReused ==
    [][(last'.op = "add_task" /\ last'.exc = "none")
          => last'.ret[1].id \notin ever_ids]_vars

\* C2: in every state of the task store, started with distinct positive ids, every
\* id is a positive integer and no two tasks have the same id.
C2_IdsPositiveDistinct ==
    /\ \A i \in 1..Len(task_list) : task_list[i].id \in Nat \ {0}
    /\ \A i, j \in 1..Len(task_list) : i # j => task_list[i].id # task_list[j].id

\* C2's case: a task was added after a task with a smaller id was deleted, and a
\* task of the store has been updated and has changed its status.
C2_Witness ==
    /\ last.op = "add_task"
    /\ last.exc = "none"
    /\ Len(task_list) = 3
    /\ 1 \notin Ids(task_list)
    /\ task_list[1].title = <<"H", "i">>
    /\ task_list[2].status = "DONE"

\* C10: once delete_task(id) has succeeded and until the next add_task, get_task_by_id(id),
\* update_task(id, ...) and delete_task(id) fail with LookupError (NotFoundError).
C10_DeletedStaysAbsent ==
    [][(/\ last'.op \in {"get_task_by_id", "update_task", "delete_task"}
        /\ last'.args.task_id.n \in deleted_ids)
          => last'.exc = "LookupError"]_vars

\* C10's case: an update of a task deleted since the last add.
C10_Witness ==
    /\ last.op = "update_task"
    /\ last.args.task_id.n \in deleted_ids
    /\ last.exc = "LookupError"
    /\ Len(task_list) >= 1

\* No two users have emails that are equal when compared case-insensitively.
UniqueEmails ==
    \A i, j \in 1..Len(user_list) :
        i # j => lower(user_list[i].email) # lower(user_list[j].email)

\* C3: in every state of the user store, started empty, no two users have emails equal
\* up to case; a create_user whose trimmed, lower-cased email is that of a user of the
\* store fails with ValueError (ValidationError).
C3_EmailsUnique ==
    /\ UniqueEmails
    /\ [][/\ UniqueEmails'
          /\ (/\ last'.op = "create_user"
              /\ \E i \in 1..Len(user_list) :
                    lower(user_list[i].email) = lower(strip(last'.args.email)))
                => (last'.exc = "ValueError" /\ user_list' = user_list)]_vars

\* C3's case: " A@X.io " is refused while a@x.io is a user, beside another user.
C3_Witness ==
    /\ last.op = "create_user"
    /\ last.args.email = E_ALICE
    /\ last.exc = "ValueError"
    /\ Len(user_list) = 2
    /\ \E i \in 1..Len(user_list) : user_list[i].email = E_alice

\* C4: a successful add_task, and a successful create_user, gives the new record the
\* id 1 when the store is empty and otherwise the largest id of the store plus 1.
C4_NextId ==
    [][/\ (last'.op = "add_task" /\ last'.exc = "none")
            => /\ last'.ret[1].id =
                    IF task_list = <<>> THEN 1 ELSE LargestId(task_list) + 1
               /\ task_list' = Append(task_list, last'.ret[1])
       /\ (last'.op = "create_user" /\ last'.exc = "none")
            => /\ last'.ret[1].id =
                    IF user_list = <<>> THEN 1 ELSE LargestId(user_list) + 1
               /\ user_list' = Append(user_list, last'.ret[1])]_vars

\* C4's case: a second user was created (id 2) and the only task of the store, added
\* to the empty store, has id 1.
C4_Witness ==
    /\ last.op = "create_user"
    /\ last.exc = "none"
    /\ last.ret[1].id = 2
    /\ Len(task_list) = 1
    /\ task_list[1].id = 1
    /\ task_list[1].title = <<"H", "i">>

\* The task's assigned_user_id is the user_id of the body (null, or an id).
AssignedAs(t, body) ==
    /\ "assigned_user_id" \in DOMAIN t
    /\ t.assigned_user_id = [null |-> body.null, n |-> body.n]

\* C5: for the id of a task of the store, an assign with the id of a user of the store
\* sets the task's assigned_user_id to it, and an assign with null sets it to null; both
\* succeed and return the task.
C5_AssignSets ==
    (/\ last.op = "PATCH /tasks/id/assign"
     /\ last.args.body.given
     /\ last.args.task_id \in Ids(task_list)
     /\ (last.args.body.null \/ last.args.body.n \in Ids(user_list)))
        => /\ last.http = 200
           /\ Len(last.ret) = 1
           /\ last.ret[1] = task_list[FirstIndex(task_list, last.args.task_id)]
           /\ AssignedAs(last.ret[1], last.args.body)

\* C6: an assign fails with 404 (NotFoundError) when no task has the id, and when the
\* user_id is not null and no user has it; the task store is left as it was.
C6_AssignNotFound ==
    [][(/\ last'.op = "PATCH /tasks/id/assign"
        /\ last'.args.body.given
        /\ \/ last'.args.task_id \notin Ids(task_list)
           \/ /\ ~last'.args.body.null
              /\ last'.args.body.n \notin Ids(user_list))
          => (last'.http = 404 /\ task_list' = task_list)]_vars

\* The tasks of the store GET /tasks is asked for: all, or those of the status.
WantedTasks(filter_status) ==
    SelectSeq(task_list, LAMBDA t : ~filter_status.some \/ t.status = filter_status.v)

\* The pages 1..total_pages of the GET /tasks that `last` is.
AllPages ==
    [p \in 1..last.meta.total_pages |->
        list_tasks(task_list, last.args.filter_status, last.args.sort_by,
                   last.args.ascending, QInt(p), QInt(last.meta.page_size)).ret]

\* The pages hold exactly the records of `want`, each once.
HoldEachOnce(pages, want) ==
    LET places == UNION {{<<p, k>> : k \in 1..Len(pages[p])} : p \in DOMAIN pages}
    IN  /\ \A i \in 1..Len(want) :
              Cardinality({pk \in places : pages[pk[1]][pk[2]] = want[i]}) = 1
        /\ \A pk \in places : \E i \in 1..Len(want) : pages[pk[1]][pk[2]] = want[i]

\* C7: GET /tasks lists over all the tasks of the store, whatever its size: total_tasks
\* is the number of tasks of the store with the status asked for (of all tasks with no
\* filter), and the pages 1..total_pages hold exactly those tasks, each once.
C7_ListsAllTasks ==
    (last.op = "GET /tasks" /\ last.http = 200)
        => /\ last.meta.total = Len(WantedTasks(last.args.filter_status))
           /\ HoldEachOnce(AllPages, WantedTasks(last.args.filter_status))

PagedCalls == {"get_tasks", "list_users"}
PagedRequests == {"GET /tasks", "GET /tasks/search", "GET /users"}

\* The sequence the call that `last` is paginates.
PageSource ==
    CASE last.op = "get_tasks" -> task_list
      [] last.op \in {"list_users", "GET /users"} ->
            StableSort(user_list,
                       [i \in 1..Len(user_list) |-> lower(user_list[i].name)],
                       TRUE, FALSE)
      [] last.op = "GET /tasks" ->
            list_tasks_source(
                task_list, last.args.filter_status,
                IF last.args.sort_by.some THEN last.args.sort_by.v ELSE "created_at",
                last.args.ascending.some /\ lower(last.args.ascending.v) = Q_true)
      [] last.op = "GET /tasks/search" ->
            search_tasks(task_list,
                         IF last.args.keyword.some THEN last.args.keyword.v ELSE <<>>)

\* The page and page_size the call that `last` is was made with; a request's are
\* integers when int() accepts them.
AskedParses ==
    last.op \in PagedCalls \/ (last.args.page.parses /\ last.args.page_size.parses)
AskedPage ==
    IF last.op \in PagedCalls THEN last.args.page
    ELSE IF last.args.page.given THEN last.args.page.n ELSE 1
AskedPageSize ==
    IF last.op \in PagedCalls THEN last.args.page_size
    ELSE IF last.args.page_size.given THEN last.args.page_size.n
    ELSE DefaultQueryPageSize

Answered == last.exc = "none" /\ last.http \in {0, 200}

\* n = ceil(total / page_size), 0 when total = 0.
IsCeil(n, total, page_size) ==
    /\ n >= 0
    /\ n * page_size >= total
    /\ n > 0 => (n - 1) * page_size < total

\* C8: for page >= 1 and page_size >= 1 the pagination of get_tasks, list_users,
\* GET /tasks and GET /tasks/search returns at most page_size items, reports
\* total_pages = ceil(total_items / page_size), and for page <= total_pages returns the
\* items at positions (page-1)*page_size up to page*page_size of the source sequence.
C8_Pagination ==
    (/\ last.op \in PagedCalls \cup PagedRequests
     /\ AskedParses
     /\ AskedPage >= 1
     /\ AskedPageSize >= 1)
        => LET src == PageSource
               first == (AskedPage - 1) * AskedPageSize
           IN  /\ Answered
               /\ last.meta.page = AskedPage
               /\ last.meta.page_size = AskedPageSize
               /\ last.meta.total = Len(src)
               /\ Len(last.ret) <= AskedPageSize
               /\ IsCeil(last.meta.total_pages, Len(src), AskedPageSize)
               /\ AskedPage <= last.meta.total_pages
                    => /\ Len(last.ret) = Min(AskedPageSize, Len(src) - first)
                       /\ \A k \in 1..Len(last.ret) : last.ret[k] = src[first + k]

\* C8's case: the second and last page of three users, two to a page.
C8_Witness ==
    /\ last.op = "list_users"
    /\ last.meta.page = 2
    /\ last.meta.page_size = 2
    /\ last.meta.total = 3
    /\ Len(last.ret) = 1
    /\ last.ret[1].name = N_Charlie

\* C9: pagination refuses page < 1 and page_size < 1 with ValueError (ValidationError,
\* 400 for a request), and a page past the last one of a collection that is not empty
\* is no error: it returns no items, with the totals of the collection.
C9_PageRange ==
    (last.op \in PagedCalls \cup PagedRequests /\ AskedParses)
        => /\ (AskedPage < 1 \/ AskedPageSize < 1)
                => IF last.op \in PagedCalls
                   THEN last.exc = "ValueError"
                   ELSE last.exc = "none" /\ last.http = 400
           /\ (/\ AskedPage >= 1
               /\ AskedPageSize >= 1
               /\ Len(PageSource) > 0
               /\ (AskedPage - 1) * AskedPageSize >= Len(PageSource))
                => /\ Answered
                   /\ last.ret = <<>>
                   /\ last.meta.total = Len(PageSource)
                   /\ IsCeil(last.meta.total_pages, Len(PageSource), AskedPageSize)

\* C9's case: page 3 of the tasks, two to a page, when there are three or four.
C9_Witness ==
    /\ last.op = "get_tasks"
    /\ last.args.page = 3
    /\ last.args.page_size = 2
    /\ Len(task_list) \in {3, 4}
    /\ last.exc = "none"
    /\ last.ret = <<>>
    /\ last.meta.total_pages = 2

\* C11: a successful delete_task(id) removes the one task with that id: the store is one
\* task shorter, no task has the id, and the other tasks are the same records in the
\* same order; a delete_task that fails with LookupError leaves the store as it was.
C11_DeleteFrame ==
    [][last'.op = "delete_task"
          => LET n == last'.args.task_id.n
                 others == SelectSeq(task_list, LAMBDA t : t.id # n)
             IN  /\ last'.exc = "none"
                      => /\ Len(task_list') = Len(task_list) - 1
                         /\ n \notin Ids(task_list')
                         /\ task_list' = others
                 /\ last'.exc = "LookupError" => task_list' = task_list]_vars

\* C11's case: the task in the middle of three was deleted, and the store has been
\* refilled since an earlier delete.
C11_Witness ==
    /\ last.op = "delete_task"
    /\ last.exc = "none"
    /\ last.args.task_id.n = 3
    /\ Ids(task_list) = {2, 4}
    /\ task_list[1].status = "DONE"
    /\ task_list[2].title = <<"H", "i">>

\* s has a character that is not whitespace.
HasInk(s) == \E k \in 1..Len(s) : s[k] \notin Whitespace

\* The positions of the first and of the last character of s that is not whitespace.
FirstInk(s) ==
    CHOOSE k \in 1..Len(s) :
        s[k] \notin Whitespace /\ \A j \in 1..(k - 1) : s[j] \in Whitespace
LastInk(s) ==
    CHOOSE k \in 1..Len(s) :
        s[k] \notin Whitespace /\ \A j \in (k + 1)..Len(s) : s[j] \in Whitespace

\* s without its surrounding whitespace.
Trimmed(s) == IF HasInk(s) THEN SubSeq(s, FirstInk(s), LastInk(s)) ELSE <<>>

\* C12: a successful add_task(title, description) appends one task at the end of the
\* store and changes no other: its title and description are the inputs without their
\* surrounding whitespace (the description "" when none is given), its status is TODO,
\* and the record returned is the one stored.
C12_AddAppends ==
    [][(last'.op = "add_task" /\ last'.exc = "none")
          => /\ Len(last'.ret) = 1
             /\ task_list' = Append(task_list, last'.ret[1])
             /\ last'.ret[1].title = Trimmed(last'.args.title)
             /\ last'.ret[1].description = Trimmed(last'.args.description)
             /\ last'.args.description = DefaultDescription
                  => last'.ret[1].description = <<>>
             /\ last'.ret[1].status = "TODO"]_vars

\* C12's case: "  Hi  " with a description between whitespace was added to a store
\* that holds an earlier added task.
C12_Witness ==
    /\ last.op = "add_task"
    /\ last.args.title = T_Hi
    /\ last.args.description = D_Note
    /\ last.exc = "none"
    /\ Len(task_list) = 4
    /\ task_list[4].title = <<"H", "i">>
    /\ task_list[4].description = <<"n", "o", " ", "T", "e">>
    /\ task_list[3].description = <<>>

\* The trimmed title is empty or longer than 100 characters, or the trimmed description
\* is longer than 500 characters.
AddRefused(title, description) ==
    \/ Len(Trimmed(title)) = 0
    \/ Len(Trimmed(title)) > 100
    \/ Len(Trimmed(description)) > 500

\* C13: add_task fails with ValueError (ValidationError) exactly when the trimmed title
\* is empty or longer than 100 characters or the trimmed description is longer than 500
\* characters; a failed add_task leaves the task store and the file as they were.
C13_AddValidation ==
    [][last'.op = "add_task"
          => /\ last'.exc \in {"none", "ValueError"}
             /\ last'.exc = "ValueError"
                  <=> AddRefused(last'.args.title, last'.args.description)
             /\ last'.exc = "ValueError"
                  => (task_list' = task_list /\ tasks_file' = tasks_file)]_vars

\* C13's case: a title of 101 characters was refused by a store that holds a task with
\* a title of 100 characters and a description of 500.
C13_Witness ==
    /\ last.op = "add_task"
    /\ Len(Trimmed(last.args.title)) = 101
    /\ last.exc = "ValueError"
    /\ \E i \in 1..Len(task_list) :
          Len(task_list[i].title) = 100 /\ Len(task_list[i].description) = 500

\* C14: a successful update_task(id, title, description) changes only the title and the
\* description of the task with that id: its id, status and created_at stay, a field
\* passed as None stays, and every other task of the store stays as it was.
C14_UpdateFrame ==
    [][(last'.op = "update_task" /\ last'.exc = "none")
          => LET i == FirstIndex(task_list, last'.args.task_id.n)
             IN  /\ i \in 1..Len(task_list)
                 /\ Len(task_list') = Len(task_list)
                 /\ \A j \in 1..Len(task_list) : j # i => task_list'[j] = task_list[j]
                 /\ DOMAIN task_list'[i] = DOMAIN task_list[i]
                 /\ task_list'[i].id = task_list[i].id
                 /\ task_list'[i].status = task_list[i].status
                 /\ task_list'[i].created_at = task_list[i].created_at
                 /\ ~last'.args.title.some => task_list'[i].title = task_list[i].title
                 /\ ~last'.args.description.some
                      => task_list'[i].description = task_list[i].description]_vars

\* C14's case: the title alone of task 1 was updated after its status had changed, in a
\* store of three tasks or more.
C14_Witness ==
    /\ last.op = "update_task"
    /\ last.exc = "none"
    /\ last.args.task_id.n = 1
    /\ last.args.title = Some(T_Hi)
    /\ ~last.args.description.some
    /\ Len(task_list) >= 3
    /\ task_list[1].title = <<"H", "i">>
    /\ task_list[1].description = DEFAULT_TASKS[1].description
    /\ task_list[1].status = "ONGOING"
    /\ task_list[1].created_at = ImportTime

CasePairs == {{UpperLetters[i], LowerLetters[i]} : i \in 1..Len(UpperLetters)}

\* Two characters that are equal when case is ignored.
SameLetter(a, b) == a = b \/ {a, b} \in CasePairs

\* needle occurs in hay, case ignored.
Occurs(hay, needle) ==
    \E i \in 0..(Len(hay) - Len(needle)) :
        \A k \in 1..Len(needle) : SameLetter(hay[i + k], needle[k])

\* C16: search_tasks(keyword) returns the tasks of the store whose title or description
\* contains the keyword, case ignored on both sides, in the order of the store; with
\* the empty keyword it returns all the tasks of the store.
C16_Search ==
    last.op = "search_tasks"
        => /\ last.ret =
                SelectSeq(task_list,
                          LAMBDA t : \/ Occurs(t.title, last.args.keyword)
                                     \/ Occurs(t.description, last.args.keyword))
           /\ last.args.keyword = <<>> => last.ret = task_list

\* C16's case: "hI" finds the two tasks titled "Hi" behind the two it does not match.
C16_Witness ==
    /\ last.op = "search_tasks"
    /\ last.args.keyword = K_hi
    /\ Len(task_list) = 4
    /\ [i \in 1..Len(last.ret) |-> last.ret[i].id] = <<3, 4>>

\* The name is empty or longer than 50 characters once trimmed, or the email, trimmed
\* and lower-cased, does not match the pattern or is the email of a user of the store.
CreateRefused(name, email) ==
    \/ Len(Trimmed(name)) = 0
    \/ Len(Trimmed(name)) > 50
    \/ ~email_match(lower(Trimmed(email)))
    \/ \E i \in 1..Len(user_list) : user_list[i].email = lower(Trimmed(email))

\* C17: create_user(name, email) fails with ValueError (ValidationError) when the
\* trimmed name is empty or longer than 50 characters, when the trimmed, lower-cased
\* email does not match the pattern, and when that email is in use; a failed
\* create_user leaves the user store as it was, and a successful one appends one user
\* with the trimmed name and the trimmed, lower-cased email.
C17_CreateUser ==
    [][last'.op = "create_user"
          => /\ CreateRefused(last'.args.name, last'.args.email)
                  => last'.exc = "ValueError"
             /\ last'.exc # "none" => user_list' = user_list
             /\ last'.exc = "none"
                  => /\ Len(last'.ret) = 1
                     /\ user_list' = Append(user_list, last'.ret[1])
                     /\ last'.ret[1].name = Trimmed(last'.args.name)
                     /\ last'.ret[1].email = lower(Trimmed(last'.args.email))]_vars

\* C17's case: a name of 51 characters was refused, with an email that is free and
\* well formed, by a store that holds a user with a name of 50 characters.
C17_Witness ==
    /\ last.op = "create_user"
    /\ Len(Trimmed(last.args.name)) = 51
    /\ last.args.email = E_bob
    /\ last.exc = "ValueError"
    /\ Len(user_list) = 1
    /\ Len(user_list[1].name) = 50
    /\ user_list[1].email = E_alice

\* C18: a user of the store stays in it with the same id, name, email and created_at:
\* no operation changes or removes a user, and the number of users never decreases.
C18_UsersStay ==
    [][/\ Len(user_list') >= Len(user_list)
       /\ \A i \in 1..Len(user_list) :
             \E j \in 1..Len(user_list') : user_list'[j] = user_list[i]]_vars

\* C18's case: two users are in the store, the first as it was created, after a create
\* with the first user's email and another name, and a task has just been deleted.
C18_Witness ==
    /\ last.op = "delete_task"
    /\ last.exc = "none"
    /\ Len(user_list) = 2
    /\ user_list[1] =
          [id |-> 1, name |-> <<"B", "o", "b">>, email |-> E_alice, created_at |-> 1]
    /\ Len(user_list[2].name) = 50
    /\ user_list[2].id = 2

\* The number of users of the store whose name comes before `name`, and the number of
\* those whose name does not come after it, names compared with case ignored.
NamesBefore(name) ==
    Cardinality({j \in 1..Len(user_list) :
                    str_lt(lower(user_list[j].name), lower(name))})
NamesNotAfter(name) ==
    Cardinality({j \in 1..Len(user_list) :
                    ~str_lt(lower(name), lower(user_list[j].name))})

\* C19: list_users returns the users in ascending order of their names compared with
\* case ignored, whatever the order they were created in, and paginates that order: the
\* k-th user of page p stands at place (p-1)*page_size + k of the sorted users.
C19_UsersSorted ==
    (last.op = "list_users" /\ last.exc = "none")
        => LET first == (last.meta.page - 1) * last.meta.page_size
               left == Len(user_list) - first
           IN  /\ Len(last.ret) =
                    IF left < 0 THEN 0 ELSE Min(last.meta.page_size, left)
               /\ \A k \in 1..Len(last.ret) :
                     /\ \E i \in 1..Len(user_list) : user_list[i] = last.ret[k]
                     /\ NamesBefore(last.ret[k].name) < first + k
                     /\ first + k <= NamesNotAfter(last.ret[k].name)

\* C19's case: page 1, two to a page, of the users created as Charlie, alice, Bob is
\* alice, Bob.
C19_Witness ==
    /\ last.op = "list_users"
    /\ last.args = [page |-> 1, page_size |-> 2]
    /\ [i \in 1..Len(user_list) |-> user_list[i].name] =
          <<N_Charlie, N_alice, <<"B", "o", "b">> >>
    /\ [i \in 1..Len(last.ret) |-> last.ret[i].name] = <<N_alice, <<"B", "o", "b">> >>

\* The place of a status in the order TODO, ONGOING, DONE.
StatusRank(status) ==
    CASE status = "TODO" -> 1
      [] status = "ONGOING" -> 2
      [] status = "DONE" -> 3

\* a comes no later than b: in the order TODO, ONGOING, DONE when up, in the order
\* DONE, ONGOING, TODO when not.
NoLater(a, b, up) ==
    IF up
    THEN StatusRank(a.status) <= StatusRank(b.status)
    ELSE StatusRank(a.status) >= StatusRank(b.status)

\* The tasks of `page` follow the order, and the first follows the last of `before`.
InStatusOrder(before, page, up) ==
    /\ \A k \in 1..(Len(page) - 1) : NoLater(page[k], page[k + 1], up)
    /\ (before # <<>> /\ page # <<>>) => NoLater(before[Len(before)], page[1], up)

\* The page before the one the GET /tasks that `last` is returned (none before page 1).
PageBefore ==
    IF last.meta.page > 1
    THEN list_tasks(task_list, last.args.filter_status, last.args.sort_by,
                    last.args.ascending, QInt(last.meta.page - 1),
                    QInt(last.meta.page_size)).ret
    ELSE <<>>

\* C20: GET /tasks with sort_by=status returns the tasks in the order TODO, ONGOING,
\* DONE when ascending=true, and in the order DONE, ONGOING, TODO when ascending=false
\* or is not given, whatever their order in the store; each page continues the order
\* of the page before it.
C20_StatusOrder ==
    (/\ last.op = "GET /tasks"
     /\ last.args.sort_by = Param("status")
     /\ last.args.ascending \in {None, Some(Q_true), Some(Q_false)})
        => /\ last.http = 200
           /\ InStatusOrder(PageBefore, last.ret, last.args.ascending = Some(Q_true))

\* C20's case: a store in the order DONE, TODO, ONGOING listed ascending.
C20_Witness ==
    /\ last.op = "GET /tasks"
    /\ last.args.ascending = Some(Q_true)
    /\ ~last.args.page.given
    /\ Len(task_list) = 3
    /\ [i \in 1..3 |-> task_list[i].status] = <<"DONE", "TODO", "ONGOING">>
    /\ [i \in 1..Len(last.ret) |-> last.ret[i].id] = <<2, 3, 1>>

\* C21: get_task_by_id(id) fails with ValueError (ValidationError) when id is no
\* positive integer (text that is no number, zero, negative), fails with LookupError
\* (NotFoundError) when id is a positive integer no task has, and otherwise returns the
\* task with that id; get_user_by_id(id) fails with LookupError when id is no integer
\* and when no user has it.
C21_GetById ==
    /\ last.op = "get_task_by_id"
         => LET id == last.args.task_id
            IN  IF ~id.parses \/ id.n <= 0
                THEN last.exc = "ValueError"
                ELSE IF \A i \in 1..Len(task_list) : task_list[i].id # id.n
                THEN last.exc = "LookupError"
                ELSE /\ last.exc = "none"
                     /\ Len(last.ret) = 1
                     /\ last.ret[1].id = id.n
                     /\ \E i \in 1..Len(task_list) : task_list[i] = last.ret[1]
    /\ last.op = "get_user_by_id"
         => LET id == last.args.user_id
            IN  (~id.parses \/ \A i \in 1..Len(user_list) : user_list[i].id # id.n)
                    => last.exc = "LookupError"

\* C21's case: id 0 was refused by a task store that has lost a task and gained one,
\* beside a user store that is not empty.
C21_Witness ==
    /\ last.op = "get_task_by_id"
    /\ last.args.task_id = IntArg(0)
    /\ last.exc = "ValueError"
    /\ Ids(task_list) = {2, 3}
    /\ Len(user_list) >= 1

PathIdRequests ==
    {"GET /tasks/id", "PUT /tasks/id", "PATCH /tasks/id/status", "DELETE /tasks/id"}

\* The exception of the store function the request (op, args) calls on `tasks`
\* ("none" when it returns, and when the handler answers without calling it).
StoreError(tasks, op, args) ==
    CASE op = "GET /tasks/id" -> get_task_by_id(tasks, IntArg(args.task_id)).exc
      [] op = "DELETE /tasks/id" -> delete_task(tasks, IntArg(args.task_id)).exc
      [] op = "PUT /tasks/id" ->
            IF args.data.given
            THEN update_task(tasks, IntArg(args.task_id), args.data.title,
                             args.data.description).exc
            ELSE "none"
      [] op = "PATCH /tasks/id/status" ->
            IF args.data.given
            THEN update_task_status(tasks, IntArg(args.task_id), args.data.status).exc
            ELSE "none"

\* C22: for GET, PUT and DELETE /tasks/{id} and PATCH /tasks/{id}/status and every id
\* the router accepts (0 included), a ValueError (ValidationError) of the store is
\* answered 400 and a LookupError (NotFoundError) 404: no error of the store leaves
\* the handler.
C22_ErrorsTranslated ==
    [][last'.op \in PathIdRequests
          => LET e == StoreError(task_list, last'.op, last'.args)
             IN  /\ last'.exc = "none"
                 /\ e = "ValueError" => last'.http = 400
                 /\ e = "LookupError" => last'.http = 404]_vars

TaskMutations == {"add_task", "update_task", "update_task_status", "delete_task"}

\* C23: after a successful add_task, update_task, update_task_status or delete_task
\* whose file write succeeds, tasks.json holds the tasks of the store, and after a
\* successful create_user whose file write succeeds, users.json holds the users of the
\* store.
C23_FileFollowsStore ==
    [][(last'.exc = "none" /\ last'.io = "written")
          => /\ last'.op \in TaskMutations
                  => (tasks_file'.readable /\ tasks_file'.records = task_list')
             /\ last'.op = "create_user"
                  => (users_file'.readable /\ users_file'.records = user_list')]_vars

\* C23's case: a task was deleted and written after an earlier write of the store had
\* failed, beside a users.json that a failed write left unreadable.
C23_Witness ==
    /\ last.op = "delete_task"
    /\ last.exc = "none"
    /\ last.io = "written"
    /\ Len(task_list) = 3
    /\ tasks_file = FileOf(task_list)
    /\ ~users_file.readable
    /\ Len(user_list) = 1

\* The mutating call (op, args) reaches the write of its store's file.
ReachesWrite(op, args) ==
    CASE op = "add_task" -> add_task(task_list, args.title, args.description, 0).save
      [] op = "update_task" ->
            update_task(task_list, args.task_id, args.title, args.description).save
      [] op = "update_task_status" ->
            update_task_status(task_list, args.task_id, args.new_status).save
      [] op = "delete_task" -> delete_task(task_list, args.task_id).save
      [] op = "create_user" -> create_user(user_list, args.name, args.email, 0).save
      [] OTHER -> FALSE

\* C24: when the file write of a mutating operation fails, the operation returns with
\* no error, and the file of the store is left as it was before the call.
C24_FailedWrite ==
    [][(ReachesWrite(last'.op, last'.args) /\ last'.io \in {"open_failed", "dump_failed"})
          => /\ last'.exc = "none"
             /\ tasks_file' = tasks_file
             /\ users_file' = users_file]_vars

\* C26: an update_task that fails (ValueError on the title or on the description, or
\* LookupError) leaves every field of every task of the store as it was, and after it
\* the store still equals what tasks.json holds.
C26_FailedUpdate ==
    [][(last'.op = "update_task" /\ last'.exc # "none")
          => /\ task_list' = task_list
             /\ tasks_file'.readable
             /\ tasks_file'.records = task_list']_vars

ReadOps ==
    {"get_tasks", "get_task_by_id", "search_tasks", "list_users", "get_user_by_id",
     "GET /tasks", "GET /tasks/search", "GET /users"}

\* C27: get_tasks, get_task_by_id, search_tasks, list_users, get_user_by_id and the
\* GET /tasks, GET /tasks/search and GET /users requests leave the task store and the
\* user store as they were, contents and order.
C27_ReadsChangeNothing ==
    [][last'.op \in ReadOps
          => (task_list' = task_list /\ user_list' = user_list)]_vars

\* C27's case: GET /tasks answered three tasks in another order than the store's,
\* which is still the order they were added in.
C27_Witness ==
    /\ last.op = "GET /tasks"
    /\ last.http = 200
    /\ [i \in 1..Len(task_list) |-> task_list[i].id] = <<1, 2, 3>>
    /\ [i \in 1..Len(last.ret) |-> last.ret[i].id] = <<1, 3, 2>>
    /\ Len(user_list) >= 1

\* C25: two add_task calls, and two create_user calls with the same email, run by two
\* threads leave what running them one after the other leaves: once no call is under
\* way the tasks of the store have distinct ids, no two users have the same email, and
\* each file holds its store.
C25_Exclusive ==
    (\A t \in Threads : threads[t].pc = "idle")
        => /\ \A i, j \in 1..Len(task_list) :
                 i # j => task_list[i].id # task_list[j].id
           /\ UniqueEmails
           /\ tasks_file.records = task_list
           /\ users_file.records = user_list

====
